---- MODULE Spec2Model ----
(***************************************************************************)
(* AngleSurfaceManager (shell/platform/windows/angle_surface_manager.cc):  *)
(* the EGL/ANGLE display, contexts and the single render surface of a      *)
(* Flutter Windows view, with the texture-backed render target whose       *)
(* shared handle is handed to the embedder on every SwapBuffers.           *)
(*                                                                         *)
(* The EGL and D3D11 back ends are the environment: every call into them   *)
(* that can fail is an input of the action that makes it.  The back end    *)
(* keeps the EGL rules the code relies on: a display is usable only once   *)
(* eglInitialize succeeded on it, and initialising a display that is       *)
(* already initialised succeeds.                                           *)
(***************************************************************************)
EXTENDS Integers, Sequences, FiniteSets, TLC

\* ---------------------------------------------------------------- bounds
MaxManagers == 2        \* manager instances in SpecInstances
MaxSurfaces == 2        \* surfaces the back end can hold at one time
MaxDim == 2             \* widths and heights are 1..MaxDim

\* -------------------------------------------------------- program constants
NumTiers == 3           \* display_attributes_configs: D3D11, FL 9_3, WARP

EGL_NO_DISPLAY == 0
EGL_NO_CONTEXT == 0
EGL_NO_SURFACE == 0
NullTarget == "null"    \* WindowsRenderTarget* render_target == nullptr
NoRenderTarget == [none |-> TRUE]   \* render_target_ holding nothing
NoDevice == FALSE       \* resolved_device_ == nullptr

Managers == 1..MaxManagers
Tiers == 1..NumTiers
Dims == 1..MaxDim
Windows == {"hwnd"}
SurfaceIds == 1..MaxSurfaces
NullHandle == "null"    \* handle_ as constructed, (HANDLE)0
Handles == {NullHandle, "shared"}

\* Handles the back end hands out.  The display of tier t is t; the contexts
\* of manager m are 2m-1 (primary) and 2m (resource); Garbage stands for the
\* value of a context field the constructor never wrote.
DisplayOf(t) == t
PrimaryContextOf(m) == 2 * m - 1
ResourceContextOf(m) == 2 * m
Garbage == -1

VARIABLES
  instance_count_,   \* static int AngleSurfaceManager::instance_count_
  mgr,               \* the fields of each manager object
  alive,             \* the managers Create returned and nobody destroyed yet
  initialized,       \* back end: the displays eglInitialize succeeded on
  surfaces,          \* back end: the surface behind each surface handle
  current,           \* back end: the thread's current draw/read surface, context
  last               \* the last operation: its name, its object, its result,
                     \* the kind of surface the object had when it was called

vars == <<instance_count_, mgr, alive, initialized, surfaces, current, last>>

\* The fields of an object before its constructor body ran (lines 138-141 and
\* the member defaults); rc is what egl_resource_context_ happens to hold.
Fresh(rc) ==
  [ initialize_succeeded_ |-> FALSE,
    egl_display_ |-> EGL_NO_DISPLAY,
    egl_context_ |-> EGL_NO_CONTEXT,
    egl_resource_context_ |-> rc,
    egl_config_ |-> FALSE,
    render_surface_ |-> EGL_NO_SURFACE,
    render_target_ |-> NoRenderTarget,
    surface_width_ |-> 0,
    surface_height_ |-> 0,
    resolved_device_ |-> NoDevice,
    accelerated_paint_callback_ |-> FALSE ]

Call(name, arg) == <<name, arg>>
LogEglError(message) == <<Call("LogEglError", message)>>

NoOp == [op |-> "none", m |-> 0, result |-> FALSE, before |-> "none"]

\* A surface handle with no live surface behind it.
NoSurface == [kind |-> "none", live |-> FALSE, owner |-> 0, display |-> EGL_NO_DISPLAY]

Init ==
  /\ instance_count_ = 0
  /\ mgr = [m \in Managers |-> Fresh(EGL_NO_CONTEXT)]
  /\ alive = {}
  /\ initialized = {}
  /\ surfaces = [i \in SurfaceIds |-> NoSurface]
  /\ current = [draw |-> EGL_NO_SURFACE, read |-> EGL_NO_SURFACE,
                ctx |-> EGL_NO_CONTEXT]
  /\ last = NoOp

\* ------------------------------------------------------------ construction
\* What the back end answers to one InitializeEGL attempt.
TierOutcomes == {"no_display", "init_failed", "ok"}

\* InitializeEGL that logs its failure whatever should_log says.
InitializeEGLAlwaysLogging(t, outcome, should_log, inited) ==
  LET display == IF outcome = "no_display" THEN EGL_NO_DISPLAY ELSE DisplayOf(t)
      ok == /\ display # EGL_NO_DISPLAY
            /\ (display \in inited \/ outcome = "ok")
  IN [ egl_display_ |-> display,
       ok |-> ok,
       initialized |-> IF ok THEN inited \cup {display} ELSE inited,
       calls |-> <<Call("eglGetPlatformDisplayEXT", t)>>
                 \o (IF display # EGL_NO_DISPLAY
                       THEN <<Call("eglInitialize", display)>> ELSE <<>>)
                 \o (IF ~ok
                       THEN LogEglError(IF display = EGL_NO_DISPLAY
                                          THEN "Failed to get a compatible EGLdisplay"
                                          ELSE "Failed to initialize EGL via ANGLE")
                       ELSE <<>>) ]

\* InitializeEGL: egl_display_ is overwritten by whatever the display query
\* returns; eglInitialize on an initialised display succeeds.
InitializeEGL(t, outcome, should_log, inited) ==
  LET display == IF outcome = "no_display" THEN EGL_NO_DISPLAY ELSE DisplayOf(t)
      ok == /\ display # EGL_NO_DISPLAY
            /\ (display \in inited \/ outcome = "ok")
  IN [ egl_display_ |-> display,
       ok |-> ok,
       initialized |-> IF ok THEN inited \cup {display} ELSE inited,
       calls |-> <<Call("eglGetPlatformDisplayEXT", t)>>
                 \o (IF display # EGL_NO_DISPLAY
                       THEN <<Call("eglInitialize", display)>> ELSE <<>>)
                 \o (IF ~ok /\ should_log
                       THEN LogEglError(IF display = EGL_NO_DISPLAY
                                          THEN "Failed to get a compatible EGLdisplay"
                                          ELSE "Failed to initialize EGL via ANGLE")
                       ELSE <<>>) ]

\* The loop of Initialize over display_attributes_configs, from tier t on:
\* stop at the first tier that comes up, log only on the last one.  A tier
\* that fails leaves the initialised displays as they were.
RECURSIVE TryTiers(_, _, _)
TryTiers(t, tiers, inited) ==
  IF t = NumTiers \/ InitializeEGL(t, tiers[t], t = NumTiers, inited).ok
    THEN InitializeEGL(t, tiers[t], t = NumTiers, inited)
    ELSE [TryTiers(t + 1, tiers, inited) EXCEPT
            !.calls = InitializeEGL(t, tiers[t], t = NumTiers, inited).calls \o @]

\* How far Initialize gets once the display loop is over.
Stages == {"no_proc", "no_config", "no_context", "no_resource_context", "ok"}

\* eglChooseConfig answers EGL_FALSE for EGL_NO_DISPLAY and for a display
\* that is not initialised.
ChooseConfigOk(display, inited, stage) ==
  /\ display # EGL_NO_DISPLAY
  /\ display \in inited
  /\ stage # "no_config"

\* Initialize: the fields it leaves, whether it returned true, the displays
\* initialised afterwards, the calls made.
Initialize(m, obj, tiers, stage, inited) ==
  IF stage = "no_proc"
    THEN [ obj |-> obj, ok |-> FALSE, initialized |-> inited,
           calls |-> LogEglError("eglGetPlatformDisplayEXT not available") ]
    ELSE
      LET d == TryTiers(1, tiers, inited)
          o1 == [obj EXCEPT !.egl_display_ = d.egl_display_]
          c1 == d.calls \o <<Call("eglChooseConfig", d.egl_display_)>>
      IN IF ~ChooseConfigOk(d.egl_display_, d.initialized, stage)
           THEN [ obj |-> o1, ok |-> FALSE, initialized |-> d.initialized,
                  calls |-> c1 \o LogEglError("Failed to choose first context") ]
           ELSE
             LET o2 == [o1 EXCEPT !.egl_config_ = TRUE]
                 c2 == c1 \o <<Call("eglCreateContext", "primary")>>
             IN IF stage = "no_context"
                  THEN [ obj |-> o2, ok |-> FALSE, initialized |-> d.initialized,
                         calls |-> c2 \o LogEglError("Failed to create EGL context") ]
                  ELSE
                    LET o3 == [o2 EXCEPT !.egl_context_ = PrimaryContextOf(m)]
                        c3 == c2 \o <<Call("eglCreateContext", "resource")>>
                    IN IF stage = "no_resource_context"
                         THEN [ obj |-> [o3 EXCEPT !.egl_resource_context_ = EGL_NO_CONTEXT],
                                ok |-> FALSE, initialized |-> d.initialized,
                                calls |-> c3 \o LogEglError(
                                            "Failed to create EGL resource context") ]
                         ELSE [ obj |-> [o3 EXCEPT !.egl_resource_context_ =
                                                      ResourceContextOf(m)],
                                ok |-> TRUE, initialized |-> d.initialized,
                                calls |-> c3 ]

\* CleanUp that terminates the display whatever the instance count.
CleanUpAlwaysTerminating(obj, count, inited, ctx_ok, rctx_ok) ==
  LET has_display == obj.egl_display_ # EGL_NO_DISPLAY
  IN [ obj |-> [obj EXCEPT !.resolved_device_ = NoDevice,
                           !.egl_context_ = EGL_NO_CONTEXT,
                           !.egl_resource_context_ = EGL_NO_CONTEXT,
                           !.egl_display_ = EGL_NO_DISPLAY],
       initialized |-> IF has_display THEN inited \ {obj.egl_display_} ELSE inited,
       calls |-> IF has_display
                   THEN <<Call("eglTerminate", obj.egl_display_)>> ELSE <<>> ]

\* CleanUp with instance_count_ = count: drop the device, destroy the two
\* contexts (primary first), terminate the display if this is the only
\* instance counted.  ctx_ok and rctx_ok are the results of eglDestroyContext.
CleanUp(obj, count, inited, ctx_ok, rctx_ok) ==
  LET has_display == obj.egl_display_ # EGL_NO_DISPLAY
      do_ctx == has_display /\ obj.egl_context_ # EGL_NO_CONTEXT
      do_rctx == has_display /\ obj.egl_resource_context_ # EGL_NO_CONTEXT
      do_term == has_display /\ count = 1
  IN [ obj |-> [obj EXCEPT
                  !.resolved_device_ = NoDevice,
                  !.egl_context_ = IF do_ctx THEN EGL_NO_CONTEXT ELSE @,
                  !.egl_resource_context_ = IF do_rctx THEN EGL_NO_CONTEXT ELSE @,
                  !.egl_display_ = EGL_NO_DISPLAY],
       initialized |-> IF do_term THEN inited \ {obj.egl_display_} ELSE inited,
       calls |->
         <<Call("resolved_device_.Reset", 0)>>
         \o (IF do_ctx
               THEN <<Call("eglDestroyContext", obj.egl_context_)>>
                    \o (IF ctx_ok THEN <<>> ELSE LogEglError("Failed to destroy context"))
               ELSE <<>>)
         \o (IF do_rctx
               THEN <<Call("eglDestroyContext", obj.egl_resource_context_)>>
                    \o (IF rctx_ok THEN <<>>
                        ELSE LogEglError("Failed to destroy resource context"))
               ELSE <<>>)
         \o (IF do_term THEN <<Call("eglTerminate", obj.egl_display_)>> ELSE <<>>) ]

\* The answers of the back end to one construction.  A display loop: some
\* tiers fail, the next one, if any, comes up.
Failures == {"no_display", "init_failed"}
TierAnswers ==
  UNION { { [i \in Tiers |-> IF i <= k THEN f[i] ELSE "ok"] :
              f \in [1..k -> Failures] } : k \in 0..NumTiers }

ConstructionAnswer(tiers, stage, rc, ctx_ok, rctx_ok) ==
  [tiers |-> tiers, stage |-> stage, rc |-> rc, ctx_ok |-> ctx_ok,
   rctx_ok |-> rctx_ok]

\* With the stage Initialize reaches: rc, what egl_resource_context_ holds
\* when Initialize returns before line 270 writes it; ctx_ok and rctx_ok, the
\* results of the eglDestroyContext calls CleanUp then makes.
ConstructionAnswers ==
  { ConstructionAnswer([i \in Tiers |-> "no_display"], "no_proc",
                       EGL_NO_CONTEXT, TRUE, TRUE) }
  \cup { ConstructionAnswer(t, stage, EGL_NO_CONTEXT, TRUE, TRUE) :
           t \in TierAnswers, stage \in {"no_config", "no_context", "ok"} }
  \cup { ConstructionAnswer(t, stage, Garbage, TRUE, rctx_ok) :
           t \in TierAnswers, stage \in {"no_config", "no_context"},
           rctx_ok \in BOOLEAN }
  \cup { ConstructionAnswer(t, "no_resource_context", EGL_NO_CONTEXT, ctx_ok, TRUE) :
           t \in TierAnswers, ctx_ok \in BOOLEAN }

\* eglTerminate releases the surfaces of the display.
Terminated(surfs, inited_before, inited_after) ==
  [i \in DOMAIN surfs |->
     IF surfs[i].display \in inited_before \ inited_after
       THEN NoSurface ELSE surfs[i]]

\* Create that hands the object back without looking at initialize_succeeded_.
CreateUnchecked(m, count, inited, a) ==
  LET i == Initialize(m, Fresh(a.rc), a.tiers, a.stage, inited)
  IN [ result |-> TRUE, obj |-> [i.obj EXCEPT !.initialize_succeeded_ = i.ok],
       count |-> count + 1, initialized |-> i.initialized, calls |-> i.calls ]

\* The one element of a set that has one: binds the result of a call.
TheOne(S) == CHOOSE x \in S : TRUE

\* AngleSurfaceManager::Create with instance_count_ = count on entry: the
\* constructor and, when Initialize failed, the destructor of the object
\* Create drops.  result is whether a manager is returned.
Create(m, count, inited, a) ==
  LET Constructor(i) ==
        LET obj == [i.obj EXCEPT !.initialize_succeeded_ = i.ok]
            c == CleanUp(obj, count + 1, i.initialized, a.ctx_ok, a.rctx_ok)
        IN IF obj.initialize_succeeded_
             THEN [ result |-> TRUE, obj |-> obj, count |-> count + 1,
                    initialized |-> i.initialized, calls |-> i.calls ]
             ELSE [ result |-> FALSE, obj |-> c.obj, count |-> (count + 1) - 1,
                    initialized |-> c.initialized, calls |-> i.calls \o c.calls ]
  IN TheOne({ Constructor(i) :
                i \in {Initialize(m, Fresh(a.rc), a.tiers, a.stage, inited)} })

\* The answers the back end can give in the state: eglInitialize cannot fail
\* on a display that is up already.
ConstructionAnswersIn(inited) ==
  { a \in ConstructionAnswers :
      \A i \in Tiers : a.tiers[i] = "init_failed" => DisplayOf(i) \notin inited }

\* A destructor that forgets to count the instance down.
DestructorNotCounting(obj, count, inited, ctx_ok, rctx_ok) ==
  LET c == CleanUp(obj, count, inited, ctx_ok, rctx_ok)
  IN [ obj |-> [c.obj EXCEPT !.render_target_ = NoRenderTarget],
       count |-> count, initialized |-> c.initialized, calls |-> c.calls ]

\* ~AngleSurfaceManager with instance_count_ = count on entry.  The members
\* are destroyed once the body has run: a render target still held releases
\* its textures then.
Destructor(obj, count, inited, ctx_ok, rctx_ok) ==
  LET c == CleanUp(obj, count, inited, ctx_ok, rctx_ok)
  IN [ obj |-> [c.obj EXCEPT !.render_target_ = NoRenderTarget],
       count |-> count - 1, initialized |-> c.initialized,
       calls |-> c.calls
                 \o (IF obj.render_target_.none THEN <<>>
                     ELSE <<Call("~RenderTargetDxgiSharedHandle",
                                 obj.render_target_.surface_)>>) ]

\* The kind of the surface behind render_surface_: "none", "window", "pbuffer".
SurfaceKind(obj, surfs) ==
  IF obj.render_surface_ \in DOMAIN surfs
    THEN surfs[obj.render_surface_].kind ELSE "none"

Done(op, m, result) ==
  last' = [op |-> op, m |-> m, result |-> result,
           before |-> SurfaceKind(mgr[m], surfaces)]

CreateCall(m) ==
  /\ m \notin alive
  /\ \E a \in ConstructionAnswersIn(initialized) :
       \E r \in {Create(m, instance_count_, initialized, a)} :
          /\ mgr' = [mgr EXCEPT ![m] = IF r.result THEN r.obj
                                       ELSE Fresh(EGL_NO_CONTEXT)]
          /\ alive' = IF r.result THEN alive \cup {m} ELSE alive
          /\ instance_count_' = r.count
          /\ initialized' = r.initialized
          /\ surfaces' = Terminated(surfaces, initialized, r.initialized)
          /\ Done("Create", m, r.result)
  /\ UNCHANGED current

\* The object and the render target it owns are gone afterwards.
DestructorCall(m) ==
  /\ m \in alive
  /\ \E ctx_ok \in BOOLEAN, rctx_ok \in BOOLEAN :
       \E r \in {Destructor(mgr[m], instance_count_, initialized, ctx_ok, rctx_ok)} :
          /\ mgr' = [mgr EXCEPT ![m] = Fresh(EGL_NO_CONTEXT)]
          /\ alive' = alive \ {m}
          /\ instance_count_' = r.count
          /\ initialized' = r.initialized
          /\ surfaces' = Terminated(surfaces, initialized, r.initialized)
          /\ Done("Destructor", m, TRUE)
  /\ UNCHANGED current

NextInstances == \E m \in Managers : CreateCall(m) \/ DestructorCall(m)

\* Several instances constructed and destroyed in any order.
SpecInstances == Init /\ [][NextInstances]_vars

\* --------------------------------------------------------- render target
\* RenderTargetDxgiSharedHandle(width, height) after a successful
\* Initialize: handle_ stays null when no shared handle could be extracted,
\* surface_ is EGL_NO_SURFACE until SetSurface.
RenderTargetDxgiSharedHandle(width, height, handle) ==
  [ none |-> FALSE, width_ |-> width, height_ |-> height,
    handle_ |-> handle, surface_ |-> EGL_NO_SURFACE ]

SetSurface(target, surface) == [target EXCEPT !.surface_ = surface]

\* ------------------------------------------------------------- back end
\* eglMakeCurrent: the binding changes only when the call succeeds.
eglMakeCurrent(cur, draw, read, ctx, ok) ==
  IF ok THEN [draw |-> draw, read |-> read, ctx |-> ctx] ELSE cur

\* The handles the back end can give to a new surface: a handle stays taken
\* while its surface is live or current.
FreeSurfaceIds(surfs, cur) ==
  { i \in DOMAIN surfs : ~surfs[i].live /\ i \notin {cur.draw, cur.read} }

Min(S) == CHOOSE i \in S : \A j \in S : i <= j

\* A surface of the given kind created for manager m on its display; the
\* back end has none to give once every handle is taken.
NewSurfaceId(surfs, cur) ==
  IF FreeSurfaceIds(surfs, cur) = {} THEN EGL_NO_SURFACE
  ELSE Min(FreeSurfaceIds(surfs, cur))

WithSurface(surfs, id, kind, m, display) ==
  IF id = EGL_NO_SURFACE THEN surfs
  ELSE [surfs EXCEPT ![id] = [kind |-> kind, live |-> TRUE, owner |-> m,
                              display |-> display]]

Live(surfs, s) == s \in DOMAIN surfs /\ surfs[s].live

\* ----------------------------------------------------------- GetDevice
DeviceAnswers == {"no_ext", "no_egl_device", "no_d3d11_device", "ok"}

\* GetDevice that asks the back end on every call.
GetDeviceUncached(obj, answer) ==
  LET procs == <<Call("eglGetProcAddress", "eglQueryDisplayAttribEXT"),
                 Call("eglGetProcAddress", "eglQueryDeviceAttribEXT")>>
      q1 == <<Call("eglQueryDisplayAttribEXT", obj.egl_display_)>>
      q2 == <<Call("eglQueryDeviceAttribEXT", obj.egl_display_)>>
  IN CASE answer = "no_ext" ->
            [obj |-> obj, ok |-> obj.resolved_device_ # NoDevice, calls |-> procs]
       [] answer = "no_egl_device" ->
            [obj |-> obj, ok |-> obj.resolved_device_ # NoDevice,
             calls |-> procs \o q1]
       [] answer = "no_d3d11_device" ->
            [obj |-> obj, ok |-> obj.resolved_device_ # NoDevice,
             calls |-> procs \o q1 \o q2]
       [] OTHER ->
            [obj |-> [obj EXCEPT !.resolved_device_ = TRUE], ok |-> TRUE,
             calls |-> procs \o q1 \o q2]

\* GetDevice: the back end is asked only while nothing is resolved.
GetDevice(obj, answer) ==
  IF obj.resolved_device_ # NoDevice
    THEN [obj |-> obj, ok |-> TRUE, calls |-> <<>>]
    ELSE
      LET procs == <<Call("eglGetProcAddress", "eglQueryDisplayAttribEXT"),
                     Call("eglGetProcAddress", "eglQueryDeviceAttribEXT")>>
          q1 == <<Call("eglQueryDisplayAttribEXT", obj.egl_display_)>>
          q2 == <<Call("eglQueryDeviceAttribEXT", obj.egl_display_)>>
      IN CASE answer = "no_ext" ->
                [obj |-> obj, ok |-> FALSE, calls |-> procs]
           [] answer = "no_egl_device" ->
                [obj |-> obj, ok |-> FALSE, calls |-> procs \o q1]
           [] answer = "no_d3d11_device" ->
                [obj |-> obj, ok |-> FALSE, calls |-> procs \o q1 \o q2]
           [] OTHER ->
                [obj |-> [obj EXCEPT !.resolved_device_ = TRUE], ok |-> TRUE,
                 calls |-> procs \o q1 \o q2]

\* ------------------------------------------------------ surface methods
\* SetVSyncEnabled with the code after its first return live: it binds the
\* render surface and updates the swap interval.
SetVSyncEnabledLive(enabled) ==
  <<Call("eglMakeCurrent", "render_surface_"),
    Call("eglSwapInterval", IF enabled THEN 1 ELSE 0)>>

\* SetVSyncEnabled returns before doing anything.
SetVSyncEnabled(enabled) == <<>>

\* GetSurfaceDimensions that reports the cached size whether or not a surface
\* is recorded.
GetSurfaceDimensionsCached(obj) == <<obj.surface_width_, obj.surface_height_>>

\* GetSurfaceDimensions
GetSurfaceDimensions(obj) ==
  IF obj.render_surface_ = EGL_NO_SURFACE \/ ~obj.initialize_succeeded_
    THEN <<0, 0>>
    ELSE <<obj.surface_width_, obj.surface_height_>>

\* The answers of the back end to one CreateSurface:
\*   dev     GetDevice ("ok" also when the device is resolved already)
\*   tex     "fail" when RenderTargetDxgiSharedHandle::Initialize fails
\*   handle  the shared handle it extracts
\*   cfg3, pb3   eglChooseConfig / eglCreatePbufferFromClientBuffer with ES3
\*   cfg2, pb2   the same with ES2
\*   bind, restore   the two eglMakeCurrent around eglBindTexImage
\*   win     eglCreateWindowSurface
SurfaceAnswer(dev, tex, handle, cfg3, pb3, cfg2, pb2, bind, restore, win) ==
  [dev |-> dev, tex |-> tex, handle |-> handle, cfg3 |-> cfg3, pb3 |-> pb3,
   cfg2 |-> cfg2, pb2 |-> pb2, bind |-> bind, restore |-> restore, win |-> win]

\* The answers the texture path reads, by the step that fails; the answers
\* it does not get to read are fixed.  R: the results of eglMakeCurrent.
TextureAnswersWith(R) ==
  { SurfaceAnswer(dev, "fail", NullHandle, FALSE, FALSE, FALSE, FALSE,
                  FALSE, FALSE, TRUE) : dev \in DeviceAnswers }
  \cup { SurfaceAnswer("ok", "ok", h, FALSE, FALSE, FALSE, FALSE,
                       FALSE, FALSE, TRUE) : h \in Handles }
  \cup { SurfaceAnswer("ok", "ok", h, TRUE, FALSE, cfg2, FALSE,
                       FALSE, FALSE, TRUE) : h \in Handles, cfg2 \in BOOLEAN }
  \cup { SurfaceAnswer("ok", "ok", h, TRUE, TRUE, FALSE, FALSE,
                       bind, restore, TRUE) :
           h \in Handles, bind \in R, restore \in R }
  \cup { SurfaceAnswer("ok", "ok", h, TRUE, FALSE, TRUE, TRUE,
                       bind, restore, TRUE) :
           h \in Handles, bind \in R, restore \in R }

\* The answers the window path reads.
WindowAnswers ==
  { SurfaceAnswer("no_ext", "fail", NullHandle, FALSE, FALSE, FALSE, FALSE,
                  FALSE, FALSE, win) : win \in BOOLEAN }

\* eglCreatePbufferFromClientBuffer / eglCreateWindowSurface: the handle of
\* the new surface, EGL_NO_SURFACE when the back end refuses.
eglCreateSurface(surfs, cur, answer) ==
  IF answer THEN NewSurfaceId(surfs, cur) ELSE EGL_NO_SURFACE

\* The texture path without the ES2 fallback: it gives up when the ES3
\* attempt yields no surface.
CreateTextureSurfaceNoFallback(m, obj, surfs, cur, width, height, a) ==
  LET g == GetDevice(obj, a.dev)
      target == RenderTargetDxgiSharedHandle(width, height, a.handle)
      o1 == [g.obj EXCEPT !.render_target_ = target]
      surface == eglCreateSurface(surfs, cur, a.pb3)
      c1 == g.calls \o <<Call("RenderTarget.Initialize", TRUE),
                         Call("eglChooseConfig", "ES3")>>
      c2 == c1 \o <<Call("eglCreatePbufferFromClientBuffer", "ES3")>>
      failed(o, calls) ==
        [obj |-> o, surfaces |-> surfs, current |-> cur, ok |-> FALSE,
         surface |-> EGL_NO_SURFACE, calls |-> calls]
  IN IF ~g.ok THEN failed(g.obj, g.calls)
     ELSE IF a.tex = "fail"
       THEN failed(g.obj, g.calls \o <<Call("RenderTarget.Initialize", FALSE)>>)
     ELSE IF ~a.cfg3 THEN failed(o1, c1)
     ELSE IF surface = EGL_NO_SURFACE THEN failed(o1, c2)
     ELSE [obj |-> [o1 EXCEPT !.render_target_ = SetSurface(target, surface)],
           surfaces |-> WithSurface(surfs, surface, "pbuffer", m, obj.egl_display_),
           current |-> eglMakeCurrent(
                         eglMakeCurrent(cur, surface, surface, obj.egl_context_, a.bind),
                         cur.draw, cur.read, obj.egl_context_, a.restore),
           ok |-> TRUE, surface |-> surface,
           calls |-> c2 \o <<Call("eglMakeCurrent", <<surface, surface>>),
                             Call("eglBindTexImage", surface),
                             Call("eglMakeCurrent", <<cur.draw, cur.read>>)>>]

\* CreateSurface, texture path (render_target == nullptr), lines 326-422.
\* A return before line 337 drops the new target without storing it.
CreateTextureSurface(m, obj, surfs, cur, width, height, a) ==
  LET g == GetDevice(obj, a.dev)
      failed(o, calls) ==
        [obj |-> o, surfaces |-> surfs, current |-> cur, ok |-> FALSE,
         surface |-> EGL_NO_SURFACE, calls |-> calls]
  IN IF ~g.ok THEN failed(g.obj, g.calls)
     ELSE IF a.tex = "fail"
       THEN failed(g.obj, g.calls \o <<Call("RenderTarget.Initialize", FALSE)>>)
     ELSE
       LET target == RenderTargetDxgiSharedHandle(width, height, a.handle)
           o1 == [g.obj EXCEPT !.render_target_ = target]
           c1 == g.calls \o <<Call("RenderTarget.Initialize", TRUE),
                              Call("eglChooseConfig", "ES3")>>
       IN IF ~a.cfg3 THEN failed(o1, c1)
          ELSE
            LET first == eglCreateSurface(surfs, cur, a.pb3)
                second == IF first = EGL_NO_SURFACE /\ a.cfg2
                            THEN eglCreateSurface(surfs, cur, a.pb2)
                            ELSE EGL_NO_SURFACE
                surface == IF first # EGL_NO_SURFACE THEN first ELSE second
                c2 == c1 \o <<Call("eglCreatePbufferFromClientBuffer", "ES3")>>
                c3 == IF first # EGL_NO_SURFACE THEN c2
                      ELSE c2 \o <<Call("eglChooseConfig", "ES2")>>
                              \o (IF a.cfg2
                                    THEN <<Call("eglCreatePbufferFromClientBuffer",
                                                "ES2")>>
                                    ELSE <<>>)
            IN IF surface = EGL_NO_SURFACE THEN failed(o1, c3)
               ELSE
                 LET o2 == [o1 EXCEPT !.render_target_ = SetSurface(target, surface)]
                     drawSurface == cur.draw
                     readSurface == cur.read
                     cur1 == eglMakeCurrent(cur, surface, surface,
                                            obj.egl_context_, a.bind)
                     cur2 == eglMakeCurrent(cur1, drawSurface, readSurface,
                                            obj.egl_context_, a.restore)
                 IN [obj |-> o2,
                     surfaces |-> WithSurface(surfs, surface, "pbuffer", m,
                                              obj.egl_display_),
                     current |-> cur2, ok |-> TRUE, surface |-> surface,
                     calls |-> c3 \o <<Call("eglMakeCurrent", <<surface, surface>>),
                                       Call("eglBindTexImage", surface),
                                       Call("eglMakeCurrent",
                                            <<drawSurface, readSurface>>)>>]

\* CreateSurface, window path, lines 424-435.
CreateWindowSurface(m, obj, surfs, cur, a) ==
  LET surface == eglCreateSurface(surfs, cur, a.win)
  IN IF surface = EGL_NO_SURFACE
       THEN [obj |-> obj, surfaces |-> surfs, current |-> cur, ok |-> FALSE,
             surface |-> EGL_NO_SURFACE,
             calls |-> <<Call("eglCreateWindowSurface", EGL_NO_SURFACE)>>
                       \o LogEglError("Surface creation failed.")]
       ELSE [obj |-> obj,
             surfaces |-> WithSurface(surfs, surface, "window", m, obj.egl_display_),
             current |-> cur, ok |-> TRUE, surface |-> surface,
             calls |-> <<Call("eglCreateWindowSurface", surface)>>]

\* CreateSurface that records the height as width and the width as height.
CreateSurfaceSwappedSize(m, obj, surfs, cur, render_target, width, height, vsync_enabled, a) ==
  LET r == IF render_target = NullTarget
             THEN CreateTextureSurface(m, obj, surfs, cur, width, height, a)
             ELSE CreateWindowSurface(m, obj, surfs, cur, a)
  IN IF ~r.ok
       THEN [obj |-> r.obj, surfaces |-> r.surfaces, current |-> r.current,
             ok |-> FALSE, calls |-> r.calls]
       ELSE [obj |-> [r.obj EXCEPT !.surface_width_ = height,
                                   !.surface_height_ = width,
                                   !.render_surface_ = r.surface],
             surfaces |-> r.surfaces, current |-> r.current, ok |-> TRUE,
             calls |-> r.calls]

\* CreateSurface: the object, the back end and the calls made; ok is the
\* value returned.
CreateSurface(m, obj, surfs, cur, render_target, width, height, vsync_enabled, a) ==
  IF ~obj.initialize_succeeded_
    THEN [obj |-> obj, surfaces |-> surfs, current |-> cur, ok |-> FALSE,
          calls |-> <<>>]
    ELSE
      LET r == IF render_target = NullTarget
                 THEN CreateTextureSurface(m, obj, surfs, cur, width, height, a)
                 ELSE CreateWindowSurface(m, obj, surfs, cur, a)
      IN IF ~r.ok
           THEN [obj |-> r.obj, surfaces |-> r.surfaces, current |-> r.current,
                 ok |-> FALSE, calls |-> r.calls]
           ELSE [obj |-> [r.obj EXCEPT !.surface_width_ = width,
                                       !.surface_height_ = height,
                                       !.render_surface_ = r.surface],
                 surfaces |-> r.surfaces, current |-> r.current, ok |-> TRUE,
                 calls |-> r.calls \o SetVSyncEnabled(vsync_enabled)]

\* DestroySurface that forgets to clear render_surface_.
DestroySurfaceKeepingHandle(obj, surfs) ==
  LET destroy == /\ obj.egl_display_ # EGL_NO_DISPLAY
                 /\ obj.render_surface_ # EGL_NO_SURFACE
  IN [ obj |-> [obj EXCEPT !.render_target_ = NoRenderTarget],
       surfaces |-> IF destroy
                      THEN [surfs EXCEPT ![obj.render_surface_] = NoSurface]
                      ELSE surfs,
       calls |-> IF destroy
                   THEN <<Call("eglDestroySurface", obj.render_surface_)>>
                   ELSE <<>> ]

\* DestroySurface
DestroySurface(obj, surfs) ==
  LET destroy == /\ obj.egl_display_ # EGL_NO_DISPLAY
                 /\ obj.render_surface_ # EGL_NO_SURFACE
  IN [ obj |-> [obj EXCEPT !.render_surface_ = EGL_NO_SURFACE,
                           !.render_target_ = NoRenderTarget],
       surfaces |-> IF destroy
                      THEN [surfs EXCEPT ![obj.render_surface_] = NoSurface]
                      ELSE surfs,
       calls |-> IF destroy
                   THEN <<Call("eglDestroySurface", obj.render_surface_)>>
                   ELSE <<>> ]

\* ClearContext: eglMakeCurrent with no surfaces and the primary context.
ClearContext(obj, cur, ok) ==
  [ current |-> eglMakeCurrent(cur, EGL_NO_SURFACE, EGL_NO_SURFACE,
                               obj.egl_context_, ok),
    ok |-> ok,
    calls |-> <<Call("eglMakeCurrent", <<EGL_NO_SURFACE, EGL_NO_SURFACE>>)>> ]

\* MakeCurrent: the render surface with the primary context.
MakeCurrent(obj, cur, ok) ==
  [ current |-> eglMakeCurrent(cur, obj.render_surface_, obj.render_surface_,
                               obj.egl_context_, ok),
    ok |-> ok,
    calls |-> <<Call("eglMakeCurrent", <<obj.render_surface_, obj.render_surface_>>)>> ]

\* MakeResourceCurrent: no surfaces with the resource context.
MakeResourceCurrent(obj, cur, ok) ==
  [ current |-> eglMakeCurrent(cur, EGL_NO_SURFACE, EGL_NO_SURFACE,
                               obj.egl_resource_context_, ok),
    ok |-> ok,
    calls |-> <<Call("eglMakeCurrent", <<EGL_NO_SURFACE, EGL_NO_SURFACE>>)>> ]

\* ResizeSurface without its test: it always recreates.
NeedsResizeAlways(obj, width, height) == TRUE

\* The test ResizeSurface makes before doing anything.
NeedsResize(obj, width, height) ==
  LET existing == GetSurfaceDimensions(obj)
  IN width # existing[1] \/ height # existing[2]

\* ResizeSurface that passes its render_target on to CreateSurface.
ResizeSurfaceKeepingTarget(m, obj, surfs, cur, render_target, width, height, vsync_enabled, clear_ok, a) ==
  IF ~NeedsResize(obj, width, height)
    THEN [obj |-> obj, surfaces |-> surfs, current |-> cur, ok |-> TRUE,
          calls |-> <<>>]
    ELSE
      LET o1 == [obj EXCEPT !.surface_width_ = width, !.surface_height_ = height]
          cc == ClearContext(o1, cur, clear_ok)
          d == DestroySurface(o1, surfs)
      IN CreateSurface(m, d.obj, d.surfaces, cc.current, render_target,
                       width, height, vsync_enabled, a)

\* ResizeSurface; clear_ok is the result of ClearContext, ok whether the
\* surface was recreated (the method returns nothing).
ResizeSurface(m, obj, surfs, cur, render_target, width, height, vsync_enabled, clear_ok, a) ==
  IF ~NeedsResize(obj, width, height)
    THEN [obj |-> obj, surfaces |-> surfs, current |-> cur, ok |-> TRUE,
          calls |-> <<>>]
    ELSE
      LET o1 == [obj EXCEPT !.surface_width_ = width, !.surface_height_ = height]
          cc == ClearContext(o1, cur, clear_ok)
          d == DestroySurface(o1, surfs)
          c == CreateSurface(m, d.obj, d.surfaces, cc.current, NullTarget,
                             width, height, vsync_enabled, a)
      IN [c EXCEPT !.calls =
            cc.calls \o d.calls \o c.calls
            \o (IF c.ok THEN <<>>
                ELSE <<Call("FML_LOG",
                  "AngleSurfaceManager::ResizeSurface failed to create surface")>>)]

\* SwapBuffers that hands over the cached surface size, not the target's.
SwapBuffersCachedSize(obj, swap_ok) ==
  LET t == obj.render_target_
  IN [ result |-> swap_ok,
       calls |->
         <<Call("eglSwapBuffers", obj.render_surface_)>>
         \o (IF ~t.none
               THEN <<Call("Unlock", t.surface_)>>
                    \o (IF obj.accelerated_paint_callback_
                          THEN <<Call("accelerated_paint_callback_",
                                      <<t.handle_, obj.surface_width_,
                                        obj.surface_height_>>)>>
                          ELSE <<>>)
               ELSE <<>>) ]

\* SwapBuffers; swap_ok is the result of eglSwapBuffers.
SwapBuffers(obj, swap_ok) ==
  LET t == obj.render_target_
  IN [ result |-> swap_ok,
       calls |->
         <<Call("eglSwapBuffers", obj.render_surface_)>>
         \o (IF ~t.none
               THEN <<Call("Unlock", t.surface_)>>
                    \o (IF obj.accelerated_paint_callback_
                          THEN <<Call("accelerated_paint_callback_",
                                      <<t.handle_, t.width_, t.height_>>)>>
                          ELSE <<>>)
               ELSE <<>>) ]

\* ---------------------------------------------------------------- actions
Targets == {NullTarget} \cup Windows

\* The answers CreateSurface can get for the target in the state of obj:
\* GetDevice asks nothing once the device is resolved.
AnswersFor(obj, render_target, R) ==
  IF render_target = NullTarget
    THEN { a \in TextureAnswersWith(R) :
             obj.resolved_device_ # NoDevice => a.dev = "ok" }
    ELSE WindowAnswers

\* The results of eglMakeCurrent in the runs of Spec: the binds the surface
\* methods make succeed.
BindResults == {TRUE}

CreateSurfaceCall(m) ==
  /\ m \in alive
  /\ \E render_target \in Targets, width \in Dims, height \in Dims,
        vsync_enabled \in BOOLEAN :
       \E a \in AnswersFor(mgr[m], render_target, BindResults) :
         \E r \in {CreateSurface(m, mgr[m], surfaces, current, render_target,
                                  width, height, vsync_enabled, a)} :
            /\ mgr' = [mgr EXCEPT ![m] = r.obj]
            /\ surfaces' = r.surfaces
            /\ current' = r.current
            /\ Done("CreateSurface", m, r.ok)
  /\ UNCHANGED <<instance_count_, alive, initialized>>

ResizeSurfaceCall(m) ==
  /\ m \in alive
  /\ \E render_target \in Targets, width \in Dims, height \in Dims,
        vsync_enabled \in BOOLEAN, clear_ok \in BindResults :
       \E a \in AnswersFor(mgr[m], NullTarget, BindResults) :
         \E r \in {ResizeSurface(m, mgr[m], surfaces, current, render_target,
                                  width, height, vsync_enabled, clear_ok, a)} :
            /\ mgr' = [mgr EXCEPT ![m] = r.obj]
            /\ surfaces' = r.surfaces
            /\ current' = r.current
            /\ Done("ResizeSurface", m, r.ok)
  /\ UNCHANGED <<instance_count_, alive, initialized>>

DestroySurfaceCall(m) ==
  /\ m \in alive
  /\ \E r \in {DestroySurface(mgr[m], surfaces)} :
        /\ mgr' = [mgr EXCEPT ![m] = r.obj]
        /\ surfaces' = r.surfaces
        /\ Done("DestroySurface", m, TRUE)
  /\ UNCHANGED <<instance_count_, alive, initialized, current>>

\* SwapBuffers; eglSwapBuffers can succeed only on a live surface.
SwapBuffersCall(m) ==
  /\ m \in alive
  /\ \E swap_ok \in BOOLEAN :
       /\ swap_ok => Live(surfaces, mgr[m].render_surface_)
       /\ Done("SwapBuffers", m, SwapBuffers(mgr[m], swap_ok).result)
  /\ UNCHANGED <<instance_count_, mgr, alive, initialized, surfaces, current>>

\* The embedder registers its accelerated-paint callback with the manager.
SetAcceleratedPaintCallbackCall(m) ==
  /\ m \in alive
  /\ mgr' = [mgr EXCEPT ![m].accelerated_paint_callback_ = TRUE]
  /\ Done("SetAcceleratedPaintCallback", m, TRUE)
  /\ UNCHANGED <<instance_count_, alive, initialized, surfaces, current>>

\* The instance whose surface operations Spec follows.
View == 1

\* The state Create leaves when the first display tier comes up: one
\* initialised manager, no surface yet.
Constructed ==
  [Fresh(EGL_NO_CONTEXT) EXCEPT
     !.initialize_succeeded_ = TRUE,
     !.egl_display_ = DisplayOf(1),
     !.egl_config_ = TRUE,
     !.egl_context_ = PrimaryContextOf(View),
     !.egl_resource_context_ = ResourceContextOf(View)]

InitView ==
  /\ instance_count_ = 1
  /\ mgr = [m \in Managers |->
              IF m = View THEN Constructed ELSE Fresh(EGL_NO_CONTEXT)]
  /\ alive = {View}
  /\ initialized = {DisplayOf(1)}
  /\ surfaces = [i \in SurfaceIds |-> NoSurface]
  /\ current = [draw |-> EGL_NO_SURFACE, read |-> EGL_NO_SURFACE,
                ctx |-> EGL_NO_CONTEXT]
  /\ last = [op |-> "Create", m |-> View, result |-> TRUE, before |-> "none"]

Next ==
  \/ SetAcceleratedPaintCallbackCall(View)
  \/ CreateSurfaceCall(View)
  \/ ResizeSurfaceCall(View)
  \/ DestroySurfaceCall(View)
  \/ SwapBuffersCall(View)

\* The surface operations of one constructed instance.
Spec == InitView /\ [][Next]_vars

\* ----------------------------------------------------------------- claims
Calls(calls) == { calls[i] : i \in DOMAIN calls }

Terminates(calls) == \E d \in Tiers : Call("eglTerminate", DisplayOf(d)) \in Calls(calls)

\* C1: destroying an instance while another one is alive never calls
\* eglTerminate, neither does a failed Create in between; destroying the only
\* live instance terminates its display; the display of every live instance
\* is therefore still up.
C1_LastInstanceTerminates ==
  /\ \A m \in alive : mgr[m].egl_display_ \in initialized
  /\ \A m \in alive : \A ctx_ok \in BOOLEAN, rctx_ok \in BOOLEAN :
       LET r == Destructor(mgr[m], instance_count_, initialized, ctx_ok, rctx_ok)
       IN /\ alive # {m} => ~Terminates(r.calls) /\ r.initialized = initialized
          /\ alive = {m} => /\ Call("eglTerminate", mgr[m].egl_display_)
                                 \in Calls(r.calls)
                            /\ mgr[m].egl_display_ \notin r.initialized
  /\ \A m \in Managers \ alive : \A a \in ConstructionAnswersIn(initialized) :
       alive # {} => ~Terminates(Create(m, instance_count_, initialized, a).calls)

\* Every instance was constructed, one was destroyed, the displays of the
\* others are still up.
C1_Witness ==
  /\ last.op = "Destructor"
  /\ Cardinality(alive) = MaxManagers - 1
  /\ \A m \in alive : mgr[m].egl_display_ \in initialized

\* A manager object whose construction went all the way.
FullyInitialized(obj, inited) ==
  /\ obj.initialize_succeeded_
  /\ obj.egl_display_ # EGL_NO_DISPLAY
  /\ obj.egl_display_ \in inited
  /\ obj.egl_config_
  /\ obj.egl_context_ \notin {EGL_NO_CONTEXT, Garbage}
  /\ obj.egl_resource_context_ \notin {EGL_NO_CONTEXT, Garbage}

\* C8: Create returns no object when no display tier comes up, when no
\* configuration is chosen or when either context cannot be created; every
\* object it returns, and so every live manager, is fully initialised.
C8_ConstructionFails ==
  /\ \A m \in alive : FullyInitialized(mgr[m], initialized)
  /\ \A m \in Managers \ alive : \A a \in ConstructionAnswersIn(initialized) :
       LET r == Create(m, instance_count_, initialized, a)
       IN /\ (\A t \in Tiers : a.tiers[t] # "ok") => ~r.result
          /\ a.stage # "ok" => ~r.result
          /\ r.result => FullyInitialized(r.obj, r.initialized)

\* A construction failed next to a live instance and returned nothing.
C8_Witness ==
  /\ last.op = "Create"
  /\ ~last.result
  /\ last.m \notin alive
  /\ alive # {}

\* ------------------------------------------------- claims on the surface
\* The positions in calls at which the accelerated-paint callback is invoked.
Invocations(calls) ==
  { i \in DOMAIN calls : calls[i][1] = "accelerated_paint_callback_" }

\* The manager has a live surface of the kind recorded as its render surface.
Active(obj, surfs, kind) ==
  /\ obj.render_surface_ # EGL_NO_SURFACE
  /\ Live(surfs, obj.render_surface_)
  /\ surfs[obj.render_surface_].kind = kind

\* C2: while the current surface is window-backed, SwapBuffers does not invoke
\* the callback.
C2_WindowSwapNoCallback ==
  \A m \in alive : \A swap_ok \in BOOLEAN :
    Active(mgr[m], surfaces, "window") =>
      Invocations(SwapBuffers(mgr[m], swap_ok).calls) = {}

\* C3: with a render target held and a callback registered, SwapBuffers
\* invokes the callback exactly once, after Unlock, with the shared handle,
\* width and height of that render target.
C3_TextureSwapInvokesOnce ==
  \A m \in alive : \A swap_ok \in BOOLEAN :
    LET obj == mgr[m]
        t == obj.render_target_
        calls == SwapBuffers(obj, swap_ok).calls
    IN ~t.none /\ obj.accelerated_paint_callback_ =>
         /\ Cardinality(Invocations(calls)) = 1
         /\ \A i \in Invocations(calls) :
              /\ calls[i][2] = <<t.handle_, t.width_, t.height_>>
              /\ \E j \in 1..(i - 1) : calls[j][1] = "Unlock"

\* A swap happened on an active texture-backed surface with the callback
\* registered, the cached size differing from the target's.
C3_Witness ==
  /\ last.op = "SwapBuffers"
  /\ mgr[View].accelerated_paint_callback_
  /\ ~mgr[View].render_target_.none
  /\ mgr[View].render_target_.handle_ # NullHandle
  /\ mgr[View].render_target_.width_ # mgr[View].render_target_.height_

\* Every input of ResizeSurface in the state of manager m.
ResizeInputs(m) ==
  [ render_target : Targets, width : Dims, height : Dims,
    vsync_enabled : BOOLEAN, clear_ok : BOOLEAN,
    a : AnswersFor(mgr[m], NullTarget, BOOLEAN) ]

Resized(m, in) ==
  ResizeSurface(m, mgr[m], surfaces, current, in.render_target, in.width,
                in.height, in.vsync_enabled, in.clear_ok, in.a)

\* The render target is held for the recorded texture-backed surface.
TextureBacked(obj, surfs) ==
  /\ Active(obj, surfs, "pbuffer")
  /\ ~obj.render_target_.none
  /\ obj.render_target_.surface_ = obj.render_surface_

\* C4 as stated: a resize to other dimensions always leaves an active
\* texture-backed surface.
C4_ResizeAlwaysTextureBacked ==
  \A m \in alive : \A in \in ResizeInputs(m) :
    NeedsResize(mgr[m], in.width, in.height) =>
      TextureBacked(Resized(m, in).obj, Resized(m, in).surfaces)

\* C4 as amended: a resize to other dimensions leaves an active
\* texture-backed surface when the surface was recreated and no surface at all
\* when it was not; never a window-backed one, whatever the prior surface and
\* the window handle passed.
C4_ResizeTextureBackedOrNone ==
  \A m \in alive : \A in \in ResizeInputs(m) :
    LET r == Resized(m, in)
    IN NeedsResize(mgr[m], in.width, in.height) =>
         /\ r.ok => TextureBacked(r.obj, r.surfaces)
         /\ ~r.ok => r.obj.render_surface_ = EGL_NO_SURFACE
         /\ ~Active(r.obj, r.surfaces, "window")

\* A resize replaced a window-backed surface by a texture-backed one.
C4_Witness ==
  /\ last.op = "ResizeSurface"
  /\ last.before = "window"
  /\ TextureBacked(mgr[View], surfaces)

\* C5: ResizeSurface with the dimensions GetSurfaceDimensions reports changes
\* nothing and calls nothing: no ClearContext, no destroy, no new surface.
C5_ResizeSameSizeNoOp ==
  \A m \in alive : \A in \in ResizeInputs(m) :
    LET r == Resized(m, in)
    IN <<in.width, in.height>> = GetSurfaceDimensions(mgr[m]) =>
         /\ r.calls = <<>>
         /\ r.obj = mgr[m]
         /\ r.surfaces = surfaces
         /\ r.current = current

\* A resize left a window-backed surface in place: only the no-op does.
C5_Witness ==
  /\ last.op = "ResizeSurface"
  /\ last.before = "window"
  /\ Active(mgr[View], surfaces, "window")

\* Every input of a texture-path CreateSurface in the state of manager m.
CreateTextureInputs(m) ==
  [ width : Dims, height : Dims, vsync_enabled : BOOLEAN,
    a : AnswersFor(mgr[m], NullTarget, BOOLEAN) ]

Created(m, in) ==
  CreateSurface(m, mgr[m], surfaces, current, NullTarget, in.width, in.height,
                in.vsync_enabled, in.a)

\* C6 as stated: after CreateSurface with no window handle,
\* GetSurfaceDimensions reports the width and height passed.
C6_CreateThenDimensions ==
  \A m \in alive : \A in \in CreateTextureInputs(m) :
    GetSurfaceDimensions(Created(m, in).obj) = <<in.width, in.height>>

\* C6 as amended: after a CreateSurface with no window handle that returned
\* true, GetSurfaceDimensions reports the width and height passed.
C6_CreatedThenDimensions ==
  \A m \in alive : \A in \in CreateTextureInputs(m) :
    LET r == Created(m, in)
    IN r.ok => GetSurfaceDimensions(r.obj) = <<in.width, in.height>>

\* A texture-backed surface was created with a width other than its height.
C6_Witness ==
  /\ last.op = "CreateSurface"
  /\ last.result
  /\ TextureBacked(mgr[View], surfaces)
  /\ GetSurfaceDimensions(mgr[View]) = <<1, MaxDim>>

\* C7: DestroySurface leaves no surface handle and no render target; it calls
\* eglDestroySurface exactly when a surface is recorded; a second call in a
\* row calls nothing and changes nothing.
C7_DestroySurfaceIdempotent ==
  \A m \in alive :
    LET first == DestroySurface(mgr[m], surfaces)
        second == DestroySurface(first.obj, first.surfaces)
    IN /\ first.obj.render_surface_ = EGL_NO_SURFACE
       /\ first.obj.render_target_ = NoRenderTarget
       /\ (first.calls # <<>>) = (mgr[m].render_surface_ # EGL_NO_SURFACE)
       /\ \A i \in DOMAIN first.calls :
            first.calls[i] = Call("eglDestroySurface", mgr[m].render_surface_)
       /\ second.calls = <<>>
       /\ second.obj = first.obj
       /\ second.surfaces = first.surfaces

\* DestroySurface took a texture-backed surface and its render target away.
C7_Witness ==
  /\ last.op = "DestroySurface"
  /\ last.before = "pbuffer"
  /\ mgr[View].render_surface_ = EGL_NO_SURFACE
  /\ mgr[View].render_target_ = NoRenderTarget
  /\ \A i \in SurfaceIds : ~surfaces[i].live

\* C9: a SwapBuffers whose eglSwapBuffers fails does not invoke the callback.
C9_FailedPresentNoCallback ==
  \A m \in alive : Invocations(SwapBuffers(mgr[m], FALSE).calls) = {}

\* The live surfaces the back end holds for manager m.
LiveSurfacesOf(m) == { i \in SurfaceIds : surfaces[i].live /\ surfaces[i].owner = m }

\* C10: a manager has at most one live surface, and it is the one recorded.
C10_OneLiveSurface ==
  \A m \in alive :
    /\ Cardinality(LiveSurfacesOf(m)) <= 1
    /\ LiveSurfacesOf(m) \subseteq {mgr[m].render_surface_}

\* ------------------------------------------------ claims on the teardown
\* The positions in calls at which the call c is made.
Positions(calls, c) == { i \in DOMAIN calls : calls[i] = c }

\* Every position of P comes before every position of Q.
Before(P, Q) == \A i \in P : \A j \in Q : i < j

\* C11: CleanUp releases the resolved device, then destroys the resource
\* context, then the primary context, then terminates the display exactly
\* when this is the last live instance, whatever the destroy steps return.
C11_TeardownOrder ==
  \A m \in alive : \A ctx_ok \in BOOLEAN, rctx_ok \in BOOLEAN :
    LET obj == mgr[m]
        calls == CleanUp(obj, instance_count_, initialized, ctx_ok, rctx_ok).calls
        reset == Positions(calls, Call("resolved_device_.Reset", 0))
        resource == Positions(calls, Call("eglDestroyContext", obj.egl_resource_context_))
        primary == Positions(calls, Call("eglDestroyContext", obj.egl_context_))
        terminate == Positions(calls, Call("eglTerminate", obj.egl_display_))
    IN /\ Cardinality(reset) = 1
       /\ Cardinality(resource) = 1
       /\ Cardinality(primary) = 1
       /\ (terminate # {}) = (alive = {m})
       /\ Before(reset, resource)
       /\ Before(resource, primary)
       /\ Before(primary, terminate)

\* The positions in calls at which a context is destroyed or a display is
\* terminated.
ContextTeardowns(calls) ==
  { i \in DOMAIN calls : calls[i][1] \in {"eglDestroyContext", "eglTerminate"} }

\* The positions in calls at which a render target releases its textures.
TextureReleases(calls) ==
  { i \in DOMAIN calls : calls[i][1] = "~RenderTargetDxgiSharedHandle" }

\* C12: destroying a manager that still holds a render target releases the
\* target's textures before any context is destroyed and before the display
\* is terminated.
C12_TexturesReleasedFirst ==
  \A m \in alive : \A ctx_ok \in BOOLEAN, rctx_ok \in BOOLEAN :
    LET calls == Destructor(mgr[m], instance_count_, initialized, ctx_ok, rctx_ok).calls
    IN ~mgr[m].render_target_.none =>
         /\ TextureReleases(calls) # {}
         /\ Before(TextureReleases(calls), ContextTeardowns(calls))

\* ------------------------------------------ claims on the current context
\* What can be current on the thread when a surface method of manager m is
\* called: what is current now, or what one of the bind methods leaves.
Bindings(m) ==
  { current,
    ClearContext(mgr[m], current, TRUE).current,
    MakeResourceCurrent(mgr[m], current, TRUE).current }
  \cup (IF Live(surfaces, mgr[m].render_surface_)
          THEN {MakeCurrent(mgr[m], current, TRUE).current} ELSE {})

\* C13: a texture-path CreateSurface leaves current the draw surface, the read
\* surface and the context that were current when it was called.
C13_CurrentPreserved ==
  \A m \in alive : \A cur \in Bindings(m) : \A in \in CreateTextureInputs(m) :
    CreateSurface(m, mgr[m], surfaces, cur, NullTarget, in.width, in.height,
                  in.vsync_enabled, in.a).current = cur

\* ------------------------------------------- claims on the texture path
\* The positions in calls at which a surface is created from the texture.
Attempts(calls) ==
  { i \in DOMAIN calls : calls[i][1] = "eglCreatePbufferFromClientBuffer" }

\* CreateSurface returned false for lack of a surface (line 400).
GaveUp(r) == ~r.ok /\ Attempts(r.calls) # {}

\* C14 as stated: CreateSurface gives up only after an ES3 attempt followed by
\* exactly one ES2 attempt, and never makes more than two attempts.
C14_GivesUpAfterTwoAttempts ==
  \A m \in alive : \A in \in CreateTextureInputs(m) :
    LET r == Created(m, in)
        es3 == Positions(r.calls, Call("eglCreatePbufferFromClientBuffer", "ES3"))
        es2 == Positions(r.calls, Call("eglCreatePbufferFromClientBuffer", "ES2"))
    IN /\ Cardinality(Attempts(r.calls)) <= 2
       /\ GaveUp(r) => /\ Cardinality(es3) = 1
                       /\ Cardinality(es2) = 1
                       /\ Before(es3, es2)

\* C14 as amended: CreateSurface gives up only after the ES3 attempt and the
\* ES2 fallback: the configuration is selected again with ES2, once, and the
\* creation is retried, once, exactly when that selection succeeded; a call
\* never makes more than two attempts, the ES3 one first.
C14_GivesUpAfterFallback ==
  \A m \in alive : \A in \in CreateTextureInputs(m) :
    LET r == Created(m, in)
        es3 == Positions(r.calls, Call("eglCreatePbufferFromClientBuffer", "ES3"))
        es2 == Positions(r.calls, Call("eglCreatePbufferFromClientBuffer", "ES2"))
        cfg2 == Positions(r.calls, Call("eglChooseConfig", "ES2"))
    IN /\ Cardinality(Attempts(r.calls)) <= 2
       /\ Attempts(r.calls) = es3 \cup es2
       /\ Cardinality(es3) <= 1 /\ Cardinality(es2) <= 1
       /\ es2 # {} => es3 # {}
       /\ Before(es3, cfg2) /\ Before(cfg2, es2)
       /\ GaveUp(r) => /\ Cardinality(es3) = 1
                       /\ Cardinality(cfg2) = 1
                       /\ (es2 # {}) = in.a.cfg2

\* A texture-path CreateSurface failed after it had stored its render target
\* and before it recorded a surface on it: at the ES3 configuration or for
\* lack of a surface.
C14_Witness ==
  /\ last.op = "CreateSurface"
  /\ ~last.result
  /\ ~mgr[View].render_target_.none
  /\ mgr[View].render_target_.surface_ = EGL_NO_SURFACE

\* ------------------------------------------ claims on the display tiers
\* The positions in calls at which a display tier is asked for.
TierAttempts(calls) ==
  { i \in DOMAIN calls : calls[i][1] = "eglGetPlatformDisplayEXT" }

\* The positions in calls at which an error is logged.
ErrorLogs(calls) == { i \in DOMAIN calls : calls[i][1] = "LogEglError" }

\* The positions in calls at which a display failure is logged.
DisplayErrorLogs(calls) ==
  { i \in ErrorLogs(calls) :
      calls[i][2] \in {"Failed to get a compatible EGLdisplay",
                       "Failed to initialize EGL via ANGLE"} }

\* C15: a construction asks for the tiers 1, 2, 3 in this order and stops at
\* the first one that comes up; it logs a display failure, once, only when
\* the last tier failed too; when a tier comes up after earlier ones failed
\* and the later steps succeed, nothing is logged and the manager returned
\* is on that tier's display.
C15_TiersInOrder ==
  \A m \in Managers \ alive : \A a \in ConstructionAnswersIn(initialized) :
    LET r == Create(m, instance_count_, initialized, a)
        up == { t \in Tiers : a.tiers[t] = "ok" }
        k == IF up = {} THEN NumTiers ELSE Min(up)
        tried == TierAttempts(r.calls)
    IN a.stage # "no_proc" =>
         /\ Cardinality(tried) = k
         /\ { r.calls[i][2] : i \in tried } = 1..k
         /\ \A i \in tried : \A j \in tried : i < j => r.calls[i][2] < r.calls[j][2]
         /\ Cardinality(DisplayErrorLogs(r.calls)) = (IF up = {} THEN 1 ELSE 0)
         /\ Before(tried, DisplayErrorLogs(r.calls))
         /\ (up # {} /\ a.stage = "ok") =>
              /\ r.result
              /\ ErrorLogs(r.calls) = {}
              /\ r.obj.egl_display_ = DisplayOf(k)
              /\ FullyInitialized(r.obj, r.initialized)

\* A manager was returned on the display of the last tier: the two tiers
\* before it had failed.
C15_Witness ==
  /\ last.op = "Create"
  /\ last.result
  /\ last.m \in alive
  /\ mgr[last.m].egl_display_ = DisplayOf(NumTiers)

\* ------------------------------------------------- claims on the device
\* The positions in calls at which the back end is asked for the device.
DeviceQueries(calls) ==
  { i \in DOMAIN calls :
      calls[i][1] \in {"eglGetProcAddress", "eglQueryDisplayAttribEXT",
                       "eglQueryDeviceAttribEXT"} }

\* C16: GetDevice asks the back end exactly while no device is resolved; it
\* then returns true exactly when both extensions are there and both queries
\* succeed, and keeps the device; once a device is resolved GetDevice and the
\* texture path of CreateSurface ask nothing and leave the device as it is;
\* CleanUp releases it.
C16_DeviceResolvedOnce ==
  \A m \in alive :
    LET obj == mgr[m]
    IN /\ \A answer \in DeviceAnswers :
            LET r == GetDevice(obj, answer)
            IN /\ obj.resolved_device_ # NoDevice =>
                    r.ok /\ r.calls = <<>> /\ r.obj = obj
               /\ obj.resolved_device_ = NoDevice =>
                    /\ DeviceQueries(r.calls) # {}
                    /\ r.ok = (answer = "ok")
                    /\ r.ok = (r.obj.resolved_device_ # NoDevice)
                    /\ ~r.ok => r.obj = obj
               /\ r.ok => \A again \in DeviceAnswers :
                    GetDevice(r.obj, again) = [obj |-> r.obj, ok |-> TRUE, calls |-> <<>>]
       /\ \A width \in Dims, height \in Dims, a \in TextureAnswersWith(BOOLEAN) :
            LET r == CreateSurface(m, obj, surfaces, current, NullTarget, width,
                                   height, TRUE, a)
            IN obj.resolved_device_ # NoDevice =>
                 /\ DeviceQueries(r.calls) = {}
                 /\ r.obj.resolved_device_ = obj.resolved_device_
       /\ \A ctx_ok \in BOOLEAN, rctx_ok \in BOOLEAN :
            CleanUp(obj, instance_count_, initialized, ctx_ok, rctx_ok)
              .obj.resolved_device_ = NoDevice

\* A second texture-backed surface was created next to a first one: the call
\* that created it found the device resolved.
C16_Witness ==
  /\ last.op = "CreateSurface"
  /\ last.result
  /\ last.before = "pbuffer"
  /\ mgr[View].resolved_device_ # NoDevice
  /\ Cardinality({ i \in SurfaceIds : surfaces[i].live /\ surfaces[i].kind = "pbuffer" }) >= 2

\* ------------------------------------------------- claims on the resize
\* The positions in calls that belong to the creation of a surface.
CreationCalls(calls) ==
  { i \in DOMAIN calls :
      calls[i][1] \in {"eglGetProcAddress", "eglQueryDisplayAttribEXT",
                       "eglQueryDeviceAttribEXT", "RenderTarget.Initialize",
                       "eglChooseConfig", "eglCreatePbufferFromClientBuffer",
                       "eglCreateWindowSurface", "eglBindTexImage"} }

\* C17: a ResizeSurface to other dimensions first clears the binding, then
\* destroys the surface it had, then creates a surface on the texture path;
\* the surface it destroys is not bound when it is destroyed; a failed
\* creation is logged, last, and nothing else tells the caller.
C17_ResizeStepsInOrder ==
  \A m \in alive : \A cur \in Bindings(m) : \A in \in ResizeInputs(m) :
    LET obj == mgr[m]
        old == obj.render_surface_
        r == ResizeSurface(m, obj, surfaces, cur, in.render_target, in.width,
                           in.height, in.vsync_enabled, in.clear_ok, in.a)
        cleared == ClearContext(obj, cur, in.clear_ok).current
        destroy == Positions(r.calls, Call("eglDestroySurface", old))
        logs == Positions(r.calls, Call("FML_LOG",
                  "AngleSurfaceManager::ResizeSurface failed to create surface"))
    IN NeedsResize(obj, in.width, in.height) =>
         /\ r.calls[1] = Call("eglMakeCurrent", <<EGL_NO_SURFACE, EGL_NO_SURFACE>>)
         /\ (destroy # {}) = (old # EGL_NO_SURFACE)
         /\ Before({1}, destroy)
         /\ Before(destroy, CreationCalls(r.calls))
         /\ CreationCalls(r.calls) # {}
         /\ Positions(r.calls, Call("eglCreateWindowSurface", EGL_NO_SURFACE)) = {}
         /\ old # EGL_NO_SURFACE => old \notin {cleared.draw, cleared.read}
         /\ (logs # {}) = ~r.ok
         /\ logs \subseteq {Len(r.calls)}

\* ------------------------------------------ claims on the instance count
\* C18: instance_count_ is the number of live instances and is never
\* negative; a Create that returns a manager leaves it one higher, a Create
\* that returns nothing leaves it as it was, a destruction one lower.
C18_CounterIsLiveInstances ==
  /\ instance_count_ = Cardinality(alive)
  /\ instance_count_ >= 0
  /\ \A m \in Managers \ alive : \A a \in ConstructionAnswersIn(initialized) :
       LET r == Create(m, instance_count_, initialized, a)
       IN r.count = instance_count_ + (IF r.result THEN 1 ELSE 0)
  /\ \A m \in alive : \A ctx_ok \in BOOLEAN, rctx_ok \in BOOLEAN :
       Destructor(mgr[m], instance_count_, initialized, ctx_ok, rctx_ok).count
         = instance_count_ - 1

\* A construction failed with no instance alive: it counted itself up, cleaned
\* up as the only instance and counted itself down again.
C18_Witness ==
  /\ last.op = "Create"
  /\ ~last.result
  /\ alive = {}
  /\ instance_count_ = 0

\* -------------------------------------------------- claims on the vsync
\* The positions in calls at which the call named name is made.
CallsOf(calls, name) == { i \in DOMAIN calls : calls[i][1] = name }

\* C19: CreateSurface and ResizeSurface return the same result, leave the
\* same object, surfaces and binding and make the same calls with vsync
\* enabled as with vsync disabled; no swap interval is set, and the only
\* binds are the two of a texture path that got its surface and the one of
\* ClearContext.
C19_VSyncInert ==
  \A m \in alive : \A render_target \in Targets, width \in Dims, height \in Dims :
    /\ \A a \in AnswersFor(mgr[m], render_target, BOOLEAN) :
         LET on == CreateSurface(m, mgr[m], surfaces, current, render_target,
                                 width, height, TRUE, a)
             off == CreateSurface(m, mgr[m], surfaces, current, render_target,
                                  width, height, FALSE, a)
         IN /\ on = off
            /\ CallsOf(on.calls, "eglSwapInterval") = {}
            /\ Cardinality(CallsOf(on.calls, "eglMakeCurrent"))
                 = (IF render_target = NullTarget /\ on.ok THEN 2 ELSE 0)
    /\ \A a \in AnswersFor(mgr[m], NullTarget, BOOLEAN), clear_ok \in BOOLEAN :
         LET on == ResizeSurface(m, mgr[m], surfaces, current, render_target,
                                 width, height, TRUE, clear_ok, a)
             off == ResizeSurface(m, mgr[m], surfaces, current, render_target,
                                  width, height, FALSE, clear_ok, a)
         IN /\ on = off
            /\ CallsOf(on.calls, "eglSwapInterval") = {}
            /\ Cardinality(CallsOf(on.calls, "eglMakeCurrent"))
                 = (IF ~NeedsResize(mgr[m], width, height) THEN 0
                    ELSE IF on.ok THEN 3 ELSE 1)

\* A window-backed surface was created where there was none.
C19_Witness ==
  /\ last.op = "CreateSurface"
  /\ last.result
  /\ last.before = "none"
  /\ Active(mgr[View], surfaces, "window")

\* ------------------------------------------ claims on the render target
\* C20: a render target is held only while a surface handle is recorded, and
\* the surface recorded on the target is that handle; SwapBuffers does not
\* invoke the callback while no surface is recorded.
C20_RenderTargetIffSurface ==
  \A m \in alive :
    /\ ~mgr[m].render_target_.none =>
         /\ mgr[m].render_surface_ # EGL_NO_SURFACE
         /\ mgr[m].render_target_.surface_ = mgr[m].render_surface_
    /\ mgr[m].render_surface_ = EGL_NO_SURFACE =>
         \A swap_ok \in BOOLEAN :
           Invocations(SwapBuffers(mgr[m], swap_ok).calls) = {}

\* ------------------------------------------- claims on the failed resize
\* The last operation was a ResizeSurface of m that did not get its surface.
ResizeFailed(m) ==
  last.op = "ResizeSurface" /\ last.m = m /\ ~last.result

\* The inputs of a ResizeSurface that asks again for the size the last
\* ResizeSurface stored (lines 453-454).
RetryInputs(m) ==
  { in \in ResizeInputs(m) : /\ in.width = mgr[m].surface_width_
                             /\ in.height = mgr[m].surface_height_ }

\* C21: after a ResizeSurface with positive dimensions that failed to
\* recreate the surface, no render surface is recorded, GetSurfaceDimensions
\* reports (0, 0), and a ResizeSurface with the same dimensions is not a
\* no-op: it clears the binding and goes through the creation of a surface
\* again.
C21_FailedResizeRetried ==
  \A m \in alive :
    ResizeFailed(m) =>
      /\ mgr[m].render_surface_ = EGL_NO_SURFACE
      /\ GetSurfaceDimensions(mgr[m]) = <<0, 0>>
      /\ mgr[m].surface_width_ > 0 /\ mgr[m].surface_height_ > 0
      /\ RetryInputs(m) # {}
      /\ \A in \in RetryInputs(m) :
           LET r == Resized(m, in)
           IN /\ NeedsResize(mgr[m], in.width, in.height)
              /\ r.calls # <<>>
              /\ r.calls[1] = Call("eglMakeCurrent",
                                   <<EGL_NO_SURFACE, EGL_NO_SURFACE>>)
              /\ CreationCalls(r.calls) # {}

\* A resize of a texture-backed surface failed, and asking again for the
\* same size can bring a surface back.
C21_Witness ==
  /\ ResizeFailed(View)
  /\ last.before = "pbuffer"
  /\ mgr[View].surface_width_ # mgr[View].surface_height_
  /\ \E in \in RetryInputs(View) :
       /\ Resized(View, in).ok
       /\ GetSurfaceDimensions(Resized(View, in).obj) = <<in.width, in.height>>

====
